---- MODULE Spec2Model ----
(***************************************************************************)
(* Customer-Management-System: the customers table, the sqlc query set,    *)
(* the customer Repository and Service, and the two HTTP handlers.         *)
(*                                                                         *)
(* A Go error is modelled as its Unwrap chain: a sequence of layers, the   *)
(* outermost first, each layer a record [tag, msg].  The empty sequence is *)
(* the nil error.  A pointer result is a sequence of length 0 (nil) or 1.  *)
(***************************************************************************)
EXTENDS Integers, Sequences, FiniteSets, TLC

\* ------------------------------------------------------------------ bounds
\* Largest value the customers id sequence hands out in the model.
MaxId == 2
\* Largest value of the storage clock (NOW()).
MaxClock == 1
\* Number of requests the HTTP server handles at the same time.
NumWorkers == 2

\* ------------------------------------------------------------ input domains
\* (name, email, password) triples offered to create and update.
Inputs ==
    { [name |-> "ann", email |-> "a@x", password |-> "p1"],
      [name |-> "bob", email |-> "b@x", password |-> "p2"],
      [name |-> "amy", email |-> "a@x", password |-> "p3"] }

Emails == {i.email : i \in Inputs}

\* Identifiers offered to by-id reads and updates (0 is never assigned).
Ids == 0..MaxId

\* What happens to the statement a call sends with its context:
\* "none" = the statement is executed, "conn" = the driver fails before
\* the statement takes effect, "canceled" = the context the statement was
\* sent with is cancelled while the statement is in flight.
Faults == {"none", "conn", "canceled"}

Methods == {"GET", "POST"}

\* Request bodies: bad = TRUE is a body json.Decoder rejects; otherwise the
\* body is a JSON object and each key holds <<v>> when the key is present
\* with string v, and <<>> when the key is absent.
Body(bad, name, email, password) ==
    [bad |-> bad, name |-> name, email |-> email, password |-> password]

Bodies ==
    { Body(TRUE,  <<>>, <<>>, <<>>),
      Body(FALSE, <<>>, <<>>, <<>>),
      Body(FALSE, <<"ann">>, <<"a@x">>, <<"p1">>),
      Body(FALSE, <<"bob">>, <<"a@x">>, <<>>) }

\* ------------------------------------------------------------------ errors
NoError == <<>>

\* errors.New(msg) stored in a package variable named tag.
Sentinel(tag, msg) == << [tag |-> tag, msg |-> msg] >>

ErrCustomerNotFound == Sentinel("customer.ErrCustomerNotFound", "customer not found")

SqlErrNoRows == Sentinel("sql.ErrNoRows", "sql: no rows in result set")

\* What a generated :one method returns when its statement yields no row.
ScanNoRows == SqlErrNoRows

\* The error of an INSERT that violates UNIQUE(email).
ErrUniqueViolation ==
    Sentinel("pgconn.PgError", "duplicate key value violates unique constraint (SQLSTATE 23505)")

\* The error of a statement the driver could not execute.
ErrConn == Sentinel("driver", "failed to connect")

\* The error of a statement whose context was cancelled.
ErrCanceled == Sentinel("context.Canceled", "context canceled")

\* The error the driver returns for a statement that did not take effect.
DriverError(fault) == IF fault = "canceled" THEN ErrCanceled ELSE ErrConn

\* fmt.Errorf(prefix + "%w", err): a fresh error value wrapping err.
Errorf(prefix, err) == << [tag |-> "fmt.wrapError", msg |-> prefix] >> \o err

\* errors.Is(err, target): some error of err's Unwrap chain is target.
Is(err, target) ==
    /\ target # NoError
    /\ \E i \in 1..Len(err) : SubSeq(err, i, Len(err)) = target

\* err.Error(): the prefixes and the innermost message, concatenated.
RECURSIVE ErrorText(_)
ErrorText(err) ==
    IF err = NoError THEN "" ELSE Head(err).msg \o ErrorText(Tail(err))

\* ---------------------------------------------------------- customers table
\* A database is [rows, nextId]: the rows of table customers and the next
\* value of the sequence behind "id SERIAL".
Customer(id, name, email, password, created, updated) ==
    [id |-> id, name |-> name, email |-> email, password |-> password,
     created_at |-> created, updated_at |-> updated]

IdsOf(rows) == {c.id : c \in rows}

EmailsOf(rows) == {c.email : c \in rows}

\* ORDER BY id DESC.
RECURSIVE OrderById_Desc(_)
OrderById_Desc(rows) ==
    IF rows = {} THEN <<>>
    ELSE LET first == CHOOSE c \in rows : \A d \in rows : c.id >= d.id
         IN  <<first>> \o OrderById_Desc(rows \ {first})

\* ORDER BY id.
RECURSIVE OrderById(_)
OrderById(rows) ==
    IF rows = {} THEN <<>>
    ELSE LET first == CHOOSE c \in rows : \A d \in rows : c.id <= d.id
         IN  <<first>> \o OrderById(rows \ {first})

\* Result of one statement: the database after it, the rows it returned (or
\* the affected-row count), the driver error, and the one statement sent.
QResult(db, out, n, err) ==
    [db |-> db, out |-> out, n |-> n, err |-> err, stmts |-> 1]


\* CreateCustomer against a table whose email column lacks UNIQUE.
QCreateCustomer_NoUnique(db, now, name, email, password, fault) ==
    IF fault # "none" THEN QResult(db, <<>>, 0, DriverError(fault))
    ELSE LET c == Customer(db.nextId, name, email, password, now, now)
         IN  QResult([rows |-> db.rows \cup {c}, nextId |-> db.nextId + 1],
                     <<c>>, 1, NoError)

\* CreateCustomer against a table declared with UNIQUE on name, not on email.
QCreateCustomer_UniqueName(db, now, name, email, password, fault) ==
    IF fault # "none" THEN QResult(db, <<>>, 0, DriverError(fault))
    ELSE IF name \in {c.name : c \in db.rows}
    THEN QResult([db EXCEPT !.nextId = @ + 1], <<>>, 0, ErrUniqueViolation)
    ELSE LET c == Customer(db.nextId, name, email, password, now, now)
         IN  QResult([rows |-> db.rows \cup {c}, nextId |-> db.nextId + 1],
                     <<c>>, 1, NoError)

\* -- name: CreateCustomer :one
QCreateCustomer(db, now, name, email, password, fault) ==
    IF fault # "none" THEN QResult(db, <<>>, 0, DriverError(fault))
    ELSE IF email \in EmailsOf(db.rows)
    THEN \* the sequence value drawn for the rejected row is not given back
         QResult([db EXCEPT !.nextId = @ + 1], <<>>, 0, ErrUniqueViolation)
    ELSE LET c == Customer(db.nextId, name, email, password, now, now)
         IN  QResult([rows |-> db.rows \cup {c}, nextId |-> db.nextId + 1],
                     <<c>>, 1, NoError)

\* -- name: GetCustomerByID :one
QGetCustomerByID(db, id, fault) ==
    IF fault # "none" THEN QResult(db, <<>>, 0, DriverError(fault))
    ELSE LET hit == {c \in db.rows : c.id = id}
         IN  IF hit = {} THEN QResult(db, <<>>, 0, ScanNoRows)
             ELSE QResult(db, <<CHOOSE c \in hit : TRUE>>, 1, NoError)

\* -- name: GetCustomerByEmail :one
QGetCustomerByEmail(db, email, fault) ==
    IF fault # "none" THEN QResult(db, <<>>, 0, DriverError(fault))
    ELSE LET hit == {c \in db.rows : c.email = email}
         IN  IF hit = {} THEN QResult(db, <<>>, 0, ScanNoRows)
             ELSE QResult(db, <<CHOOSE c \in hit : TRUE>>, 1, NoError)

\* -- name: ListCustomers :many
QListCustomers(db, fault) ==
    IF fault # "none" THEN QResult(db, <<>>, 0, DriverError(fault))
    ELSE QResult(db, OrderById(db.rows), Cardinality(db.rows), NoError)

\* UpdateCustomer without "updated_at = NOW()".
QUpdateCustomer_StaleUpdatedAt(db, now, id, name, email, password, fault) ==
    IF fault # "none" THEN QResult(db, <<>>, 0, DriverError(fault))
    ELSE LET hit == {c \in db.rows : c.id = id}
         IN  IF hit = {} THEN QResult(db, <<>>, 0, ScanNoRows)
             ELSE IF email \in EmailsOf(db.rows \ hit)
             THEN QResult(db, <<>>, 0, ErrUniqueViolation)
             ELSE LET old == CHOOSE c \in hit : TRUE
                      new == Customer(id, name, email, password,
                                      old.created_at, old.updated_at)
                  IN  QResult([db EXCEPT !.rows = (@ \ hit) \cup {new}],
                              <<new>>, 1, NoError)

\* UpdateCustomer on a table without UNIQUE (email).
QUpdateCustomer_NoUnique(db, now, id, name, email, password, fault) ==
    IF fault # "none" THEN QResult(db, <<>>, 0, DriverError(fault))
    ELSE LET hit == {c \in db.rows : c.id = id}
         IN  IF hit = {} THEN QResult(db, <<>>, 0, ScanNoRows)
             ELSE LET old == CHOOSE c \in hit : TRUE
                      new == Customer(id, name, email, password, old.created_at, now)
                  IN  QResult([db EXCEPT !.rows = (@ \ hit) \cup {new}],
                              <<new>>, 1, NoError)

\* -- name: UpdateCustomer :one
QUpdateCustomer(db, now, id, name, email, password, fault) ==
    IF fault # "none" THEN QResult(db, <<>>, 0, DriverError(fault))
    ELSE LET hit == {c \in db.rows : c.id = id}
         IN  IF hit = {} THEN QResult(db, <<>>, 0, ScanNoRows)
             ELSE IF email \in EmailsOf(db.rows \ hit)
             THEN QResult(db, <<>>, 0, ErrUniqueViolation)
             ELSE LET old == CHOOSE c \in hit : TRUE
                      new == Customer(id, name, email, password, old.created_at, now)
                  IN  QResult([db EXCEPT !.rows = (@ \ hit) \cup {new}],
                              <<new>>, 1, NoError)

\* -- name: DeleteCustomerByEmail :execrows
QDeleteCustomerByEmail(db, email, fault) ==
    IF fault # "none" THEN QResult(db, <<>>, 0, DriverError(fault))
    ELSE LET hit == {c \in db.rows : c.email = email}
         IN  QResult([db EXCEPT !.rows = @ \ hit], <<>>, Cardinality(hit), NoError)

\* ------------------------------------------------------------- Repository
\* What a repository method hands back: the database after its statement,
\* the record pointer or slice (out), the error, and the number of
\* statements it issued.
RepoResult(q, out, err) == [db |-> q.db, out |-> out, err |-> err, stmts |-> q.stmts]

FindAllCustomers(db, fault) ==
    LET q == QListCustomers(db, fault)
    IN  RepoResult(q, q.out, q.err)

\* FindCustomerByID handing back &customer together with the error.
FindCustomerByID_RecordWithError(db, id, fault) ==
    LET q == QGetCustomerByID(db, id, fault)
        zero == Customer(0, "", "", "", 0, 0)
    IN  IF q.err # NoError
        THEN IF Is(q.err, SqlErrNoRows)
             THEN RepoResult(q, <<zero>>, ErrCustomerNotFound)
             ELSE RepoResult(q, <<zero>>, Errorf("get customer by id: ", q.err))
        ELSE RepoResult(q, q.out, NoError)

FindCustomerByID(db, id, fault) ==
    LET q == QGetCustomerByID(db, id, fault)
    IN  IF q.err # NoError
        THEN IF Is(q.err, SqlErrNoRows)
             THEN RepoResult(q, <<>>, ErrCustomerNotFound)
             ELSE RepoResult(q, <<>>, Errorf("get customer by id: ", q.err))
        ELSE RepoResult(q, q.out, NoError)

\* FindCustomerByEmail without the sql.ErrNoRows branch.
FindCustomerByEmail_NoSentinel(db, email, fault) ==
    LET q == QGetCustomerByEmail(db, email, fault)
    IN  IF q.err # NoError
        THEN RepoResult(q, <<>>, Errorf("get customer by email: ", q.err))
        ELSE RepoResult(q, q.out, NoError)

FindCustomerByEmail(db, email, fault) ==
    LET q == QGetCustomerByEmail(db, email, fault)
    IN  IF q.err # NoError
        THEN IF Is(q.err, SqlErrNoRows)
             THEN RepoResult(q, <<>>, ErrCustomerNotFound)
             ELSE RepoResult(q, <<>>, Errorf("get customer by email: ", q.err))
        ELSE RepoResult(q, q.out, NoError)

\* CreateNewCustomer sending the INSERT a second time when it failed.
CreateNewCustomer_Retry(db, now, name, email, password, fault) ==
    LET q1 == QCreateCustomer(db, now, name, email, password, fault)
        q2 == QCreateCustomer(q1.db, now, name, email, password, fault)
        q  == IF q1.err = NoError THEN q1
              ELSE [q2 EXCEPT !.stmts = q1.stmts + q2.stmts]
    IN  IF q.err # NoError
        THEN RepoResult(q, <<>>, Errorf("create customer: ", q.err))
        ELSE RepoResult(q, q.out, NoError)

\* CreateNewCustomer filling Name and Email of the params from the wrong arguments.
CreateNewCustomer_SwapParams(db, now, name, email, password, fault) ==
    LET q == QCreateCustomer(db, now, email, name, password, fault)
    IN  IF q.err # NoError
        THEN RepoResult(q, <<>>, Errorf("create customer: ", q.err))
        ELSE RepoResult(q, q.out, NoError)

CreateNewCustomer(db, now, name, email, password, fault) ==
    LET q == QCreateCustomer(db, now, name, email, password, fault)
    IN  IF q.err # NoError
        THEN RepoResult(q, <<>>, Errorf("create customer: ", q.err))
        ELSE RepoResult(q, q.out, NoError)

\* UpdateExistingCustomer without the sql.ErrNoRows branch.
UpdateExistingCustomer_NoSentinel(db, now, id, name, email, password, fault) ==
    LET q == QUpdateCustomer(db, now, id, name, email, password, fault)
    IN  IF q.err # NoError
        THEN RepoResult(q, <<>>, Errorf("update customer: ", q.err))
        ELSE RepoResult(q, q.out, NoError)

UpdateExistingCustomer(db, now, id, name, email, password, fault) ==
    LET q == QUpdateCustomer(db, now, id, name, email, password, fault)
    IN  IF q.err # NoError
        THEN IF Is(q.err, SqlErrNoRows)
             THEN RepoResult(q, <<>>, ErrCustomerNotFound)
             ELSE RepoResult(q, <<>>, Errorf("update customer: ", q.err))
        ELSE RepoResult(q, q.out, NoError)

\* DeleteCustomerByEmail without the rows == 0 check.
DeleteCustomerByEmail_NoRowCheck(db, email, fault) ==
    LET q == QDeleteCustomerByEmail(db, email, fault)
    IN  IF q.err # NoError
        THEN RepoResult(q, <<>>, Errorf("delete customer: ", q.err))
        ELSE RepoResult(q, <<>>, NoError)

DeleteCustomerByEmail(db, email, fault) ==
    LET q == QDeleteCustomerByEmail(db, email, fault)
    IN  IF q.err # NoError
        THEN RepoResult(q, <<>>, Errorf("delete customer: ", q.err))
        ELSE IF q.n = 0
        THEN RepoResult(q, <<>>, ErrCustomerNotFound)
        ELSE RepoResult(q, <<>>, NoError)

\* ---------------------------------------------------------------- Service
\* What a service method hands back, together with what the repository
\* call it made returned (repo).
SvcResult(r, out, err) ==
    [db |-> r.db, out |-> out, err |-> err, stmts |-> r.stmts,
     repo |-> [out |-> r.out, err |-> r.err]]

\* GetCustomers calling the repository with context.Background() in place
\* of the context it was given.
GetCustomers_BackgroundContext(db, fault) ==
    LET r == FindAllCustomers(db, IF fault = "canceled" THEN "none" ELSE fault)
    IN  IF r.err # NoError
        THEN SvcResult(r, <<>>, Errorf("customer not found ", r.err))
        ELSE SvcResult(r, r.out, NoError)

GetCustomers(db, fault) ==
    LET r == FindAllCustomers(db, fault)
    IN  IF r.err # NoError
        THEN SvcResult(r, <<>>, Errorf("customer not found ", r.err))
        ELSE SvcResult(r, r.out, NoError)

\* GetCustomerByID formatting the repository error with %v instead of %w.
GetCustomerByID_FlattenError(db, id, fault) ==
    LET r == FindCustomerByID(db, id, fault)
    IN  IF r.err # NoError
        THEN SvcResult(r, <<>>,
                 Errorf("no customer with this id has found " \o ErrorText(r.err), NoError))
        ELSE SvcResult(r, r.out, NoError)

GetCustomerByID(db, id, fault) ==
    LET r == FindCustomerByID(db, id, fault)
    IN  IF r.err # NoError
        THEN SvcResult(r, <<>>, Errorf("no customer with this id has found ", r.err))
        ELSE SvcResult(r, r.out, NoError)

GetCustomerByEmail(db, email, fault) ==
    LET r == FindCustomerByEmail(db, email, fault)
    IN  IF r.err # NoError
        THEN SvcResult(r, <<>>, Errorf("no customer with this email has found ", r.err))
        ELSE SvcResult(r, r.out, NoError)

CreateCustomer(db, now, name, email, password, fault) ==
    LET r == CreateNewCustomer(db, now, name, email, password, fault)
    IN  IF r.err # NoError
        THEN SvcResult(r, <<>>, Errorf("no customer created ", r.err))
        ELSE SvcResult(r, r.out, NoError)

UpdateCustomer(db, now, id, name, email, password, fault) ==
    LET r == UpdateExistingCustomer(db, now, id, name, email, password, fault)
    IN  IF r.err # NoError
        THEN SvcResult(r, <<>>, Errorf("no information has changed ", r.err))
        ELSE SvcResult(r, r.out, NoError)

SvcDeleteCustomerByEmail(db, email, fault) ==
    LET r == DeleteCustomerByEmail(db, email, fault)
    IN  SvcResult(r, <<>>, r.err)

\* ---------------------------------------------------------------- Handler
\* A JSON key of the decoded request struct: the zero value "" when absent.
Field(v) == IF v = <<>> THEN "" ELSE v[1]

\* What a handler leaves behind: the database, the response (status, the
\* text written by http.Error, the value written by json.Encode) and the
\* service call it made, if any (svc has length 0 or 1).
HttpResult(db, status, text, json, svc) ==
    [db |-> db, status |-> status, text |-> text, json |-> json, svc |-> svc]

Called(s) == << [out |-> s.out, err |-> s.err, repo |-> s.repo, stmts |-> s.stmts] >>

\* CreateCustomer going on with the zero-valued request after a decode error.
HandlerCreateCustomer_IgnoreDecodeError(db, now, method, body, fault) ==
    IF method # "POST"
    THEN HttpResult(db, 405, "method not allowed", <<>>, <<>>)
    ELSE LET s == CreateCustomer(db, now,
                                 IF body.bad THEN "" ELSE Field(body.name),
                                 IF body.bad THEN "" ELSE Field(body.email),
                                 IF body.bad THEN "" ELSE Field(body.password), fault)
         IN  IF s.err # NoError
             THEN HttpResult(s.db, 500, "could not create customer", <<>>, Called(s))
             ELSE HttpResult(s.db, 201, "",
                             << [id |-> s.out[1].id, name |-> s.out[1].name,
                                 email |-> s.out[1].email] >>,
                             Called(s))

\* CreateCustomer answering a uniqueness violation with 409 instead of 500.
HandlerCreateCustomer_Conflict(db, now, method, body, fault) ==
    IF method # "POST"
    THEN HttpResult(db, 405, "method not allowed", <<>>, <<>>)
    ELSE IF body.bad
    THEN HttpResult(db, 400, "invalid request body", <<>>, <<>>)
    ELSE LET s == CreateCustomer(db, now, Field(body.name), Field(body.email),
                                 Field(body.password), fault)
         IN  IF s.err # NoError
             THEN HttpResult(s.db, IF Is(s.err, ErrUniqueViolation) THEN 409 ELSE 500,
                             "could not create customer", <<>>, Called(s))
             ELSE HttpResult(s.db, 201, "",
                             << [id |-> s.out[1].id, name |-> s.out[1].name,
                                 email |-> s.out[1].email] >>,
                             Called(s))

\* CreateCustomer rejecting a request without an email.
HandlerCreateCustomer_RequireEmail(db, now, method, body, fault) ==
    IF method # "POST"
    THEN HttpResult(db, 405, "method not allowed", <<>>, <<>>)
    ELSE IF body.bad \/ Field(body.email) = ""
    THEN HttpResult(db, 400, "invalid request body", <<>>, <<>>)
    ELSE LET s == CreateCustomer(db, now, Field(body.name), Field(body.email),
                                 Field(body.password), fault)
         IN  IF s.err # NoError
             THEN HttpResult(s.db, 500, "could not create customer", <<>>, Called(s))
             ELSE HttpResult(s.db, 201, "",
                             << [id |-> s.out[1].id, name |-> s.out[1].name,
                                 email |-> s.out[1].email] >>,
                             Called(s))

HandlerCreateCustomer(db, now, method, body, fault) ==
    IF method # "POST"
    THEN HttpResult(db, 405, "method not allowed", <<>>, <<>>)
    ELSE IF body.bad
    THEN HttpResult(db, 400, "invalid request body", <<>>, <<>>)
    ELSE LET s == CreateCustomer(db, now, Field(body.name), Field(body.email),
                                 Field(body.password), fault)
         IN  IF s.err # NoError
             THEN HttpResult(s.db, 500, "could not create customer", <<>>, Called(s))
             ELSE HttpResult(s.db, 201, "",
                             << [id |-> s.out[1].id, name |-> s.out[1].name,
                                 email |-> s.out[1].email] >>,
                             Called(s))

\* GetCustomers without the method check.
HandlerGetCustomers_AnyMethod(db, method, body, fault) ==
    LET s == GetCustomers(db, fault)
    IN  IF s.err # NoError
        THEN HttpResult(s.db, 500, "failed to fetch customers: " \o ErrorText(s.err),
                        <<>>, Called(s))
        ELSE HttpResult(s.db, 200, "", s.out, Called(s))

\* GetCustomers answering a failure with a fixed text.
HandlerGetCustomers_HidesError(db, method, body, fault) ==
    IF method # "GET"
    THEN HttpResult(db, 405, "method not allowed", <<>>, <<>>)
    ELSE LET s == GetCustomers(db, fault)
         IN  IF s.err # NoError
             THEN HttpResult(s.db, 500, "failed to fetch customers", <<>>, Called(s))
             ELSE HttpResult(s.db, 200, "", s.out, Called(s))

HandlerGetCustomers(db, method, body, fault) ==
    IF method # "GET"
    THEN HttpResult(db, 405, "method not allowed", <<>>, <<>>)
    ELSE LET s == GetCustomers(db, fault)
         IN  IF s.err # NoError
             THEN HttpResult(s.db, 500, "failed to fetch customers: " \o ErrorText(s.err),
                             <<>>, Called(s))
             ELSE HttpResult(s.db, 200, "", s.out, Called(s))

\* -------------------------------------------------------------- Bootstrap
\* The two main packages: "server" loads the configuration, opens the pool
\* and serves; "api" loads the configuration, opens the pool and returns.
Mains == {"server", "api"}

\* Values of DATABASE_URL in the process environment; pgxpool.New rejects
\* the second.
Urls == {"postgres://db", "::bad::"}

ErrEnvFile == Sentinel("fs.PathError", "open .env: no such file or directory")

ErrParseUrl == Sentinel("pgconn.ParseConfigError", "cannot parse DATABASE_URL")

\* Port 8080 when main comes to listen: free, or held by another process.
Ports == {"free", "bound"}

\* The errors server.ListenAndServe() returns with: the address cannot be
\* bound, or the listener fails while serving.
ErrAddrInUse == Sentinel("net.OpError", "listen tcp :8080: bind: address already in use")

ErrListener == Sentinel("net.OpError", "accept tcp :8080: use of closed network connection")

\* config.Load: godotenv.Load() fails when there is no .env file.
Load(envFile, url) ==
    IF ~envFile
    THEN [cfg |-> <<>>, err |-> ErrEnvFile]
    ELSE [cfg |-> << [DatabaseURL |-> url] >>, err |-> NoError]

\* database.NewConnectionPool: pgxpool.New(ctx, dbURL).
NewConnectionPool(dbURL) ==
    IF dbURL = "postgres://db"
    THEN [pool |-> <<dbURL>>, err |-> NoError]
    ELSE [pool |-> <<>>, err |-> ErrParseUrl]

\* Exit statuses: log.Fatal, a run-time panic, return from main.
ExitFatal == 1
ExitPanic == 2
ExitReturn == 0

\* The position of main: what it holds and how it ended, if it did.
BootState(main, envFile, url, port) ==
    [main |-> main, envFile |-> envFile, url |-> url, port |-> port, pc |-> "start",
     loaded |-> FALSE, cfg |-> <<>>, cfgErr |-> NoError,
     poolCalls |-> <<>>, pool |-> <<>>, poolErr |-> NoError,
     listenErr |-> NoError, exit |-> <<>>]

\* main up to the call of NewConnectionPool: config.Load() and what main
\* does with its results.  "server" stops on the error; "api" drops the
\* error and reads cfg.DatabaseURL, which panics on the nil Config.
MainLoadConfig(b) ==
    LET l == Load(b.envFile, b.url)
        held == [b EXCEPT !.loaded = TRUE, !.cfg = l.cfg, !.cfgErr = l.err]
    IN  IF b.main = "server"
        THEN IF l.err # NoError
             THEN [held EXCEPT !.pc = "exited", !.exit = <<ExitFatal>>]
             ELSE [held EXCEPT !.pc = "configured"]
        ELSE IF l.cfg = <<>>
             THEN [held EXCEPT !.pc = "exited", !.exit = <<ExitPanic>>]
             ELSE [held EXCEPT !.pc = "configured"]

\* main going on to serve after NewConnectionPool failed.
MainOpenPool_IgnoresError(b) ==
    LET p == NewConnectionPool(b.cfg[1].DatabaseURL)
    IN  [b EXCEPT !.poolCalls = Append(@, b.cfg[1].DatabaseURL),
                  !.pool = p.pool, !.poolErr = p.err, !.pc = "pooled"]

\* main from the call of NewConnectionPool to the check of its error.
MainOpenPool(b) ==
    LET p == NewConnectionPool(b.cfg[1].DatabaseURL)
        held == [b EXCEPT !.poolCalls = Append(@, b.cfg[1].DatabaseURL),
                          !.pool = p.pool, !.poolErr = p.err]
    IN  IF p.err # NoError
        THEN [held EXCEPT !.pc = "exited", !.exit = <<ExitFatal>>]
        ELSE [held EXCEPT !.pc = "pooled"]

\* The rest of main: "server" builds the handlers and calls
\* log.Fatal(..., server.ListenAndServe()), which serves when the port can
\* be bound and otherwise ends the process; "api" returns and the deferred
\* pool.Close() runs.
MainServe(b) ==
    IF b.main = "server"
    THEN IF b.port = "free"
         THEN [b EXCEPT !.pc = "listening"]
         ELSE [b EXCEPT !.pc = "exited", !.listenErr = ErrAddrInUse,
                        !.exit = <<ExitFatal>>]
    ELSE [b EXCEPT !.pc = "exited", !.pool = <<>>, !.exit = <<ExitReturn>>]

\* server.ListenAndServe() returning while the server listens: log.Fatal
\* ends the process.
MainListenReturns(b) ==
    [b EXCEPT !.pc = "exited", !.listenErr = ErrListener, !.exit = <<ExitFatal>>]

\* ------------------------------------------------------------------ state
VARIABLES
    rows,     \* the rows of table customers
    nextId,   \* next value of the id sequence
    clock,    \* NOW() of the storage
    live,     \* history: ids returned by a successful create and not deleted since
    last,     \* the latest call: what was asked, the database and NOW() before, the results
    boot,     \* the process: its main, its environment and how far main has come
    reqs      \* the POST /customers requests being handled at the same time

vars == <<rows, nextId, clock, live, last, boot, reqs>>

\* One goroutine of the HTTP server per request.
Workers == 1..NumWorkers

\* A request in the hands of its goroutine: st is "idle" (none yet),
\* "received" (handler entered, statement not yet at storage), "executed"
\* (statement done, response not yet written) or "done".  overlap records
\* that another request with the same email was in progress when this
\* request's statement ran.
Request(st, body, fault, status, overlap) ==
    [st |-> st, body |-> body, fault |-> fault, status |-> status, overlap |-> overlap]

NoRequest == Request("idle", Body(FALSE, <<>>, <<>>, <<>>), "none", 0, FALSE)

InProgress(q) == q.st \in {"received", "executed"}

\* Requests are served once main listens.
Serving == boot.pc = "listening"

DB == [rows |-> rows, nextId |-> nextId]

NoArg == [id |-> 0, name |-> "", email |-> "", password |-> "",
          method |-> "", body |-> Body(FALSE, <<>>, <<>>, <<>>), fault |-> "none"]

Last(op, arg, svc, http) ==
    [op |-> op, arg |-> arg, pre |-> DB, now |-> clock, svc |-> svc, http |-> http]

Response(h) == << [status |-> h.status, text |-> h.text, json |-> h.json] >>

\* The database a call leaves behind becomes the state.
Commit(db) ==
    /\ rows' = db.rows
    /\ nextId' = db.nextId
    /\ UNCHANGED <<clock, boot, reqs>>

Init ==
    /\ rows = {}
    /\ nextId = 1
    /\ clock = 0
    /\ live = {}
    /\ last = [op |-> "init", arg |-> NoArg, pre |-> [rows |-> {}, nextId |-> 1],
               now |-> 0, svc |-> <<>>, http |-> <<>>]
    /\ \E m \in Mains, e \in BOOLEAN, u \in Urls, p \in Ports :
          boot = BootState(m, e, u, p)
    /\ reqs = [w \in Workers |-> NoRequest]

StartLoadConfig ==
    /\ boot.pc = "start"
    /\ boot' = MainLoadConfig(boot)
    /\ UNCHANGED <<rows, nextId, clock, live, last, reqs>>

StartOpenPool ==
    /\ boot.pc = "configured"
    /\ boot' = MainOpenPool(boot)
    /\ UNCHANGED <<rows, nextId, clock, live, last, reqs>>

StartServe ==
    /\ boot.pc = "pooled"
    /\ boot' = MainServe(boot)
    /\ UNCHANGED <<rows, nextId, clock, live, last, reqs>>

\* The listener fails and ListenAndServe returns: no request is served
\* from then on.
ServeFails ==
    /\ boot.pc = "listening"
    /\ boot' = MainListenReturns(boot)
    /\ UNCHANGED <<rows, nextId, clock, live, last, reqs>>

\* Time passes between requests; the latest call is then no longer the
\* latest event.
Tick ==
    /\ clock < MaxClock
    /\ clock' = clock + 1
    /\ last' = [op |-> "Tick", arg |-> NoArg, pre |-> DB, now |-> clock,
                svc |-> <<>>, http |-> <<>>]
    /\ UNCHANGED <<rows, nextId, live, boot, reqs>>

CallGetCustomers ==
    \E f \in Faults :
        LET s == GetCustomers(DB, f)
        IN  /\ Serving
            /\ Commit(s.db)
            /\ UNCHANGED live
            /\ last' = Last("GetCustomers", [NoArg EXCEPT !.fault = f], Called(s), <<>>)

CallGetCustomerByID ==
    \E id \in Ids, f \in Faults :
        LET s == GetCustomerByID(DB, id, f)
        IN  /\ Serving
            /\ Commit(s.db)
            /\ UNCHANGED live
            /\ last' = Last("GetCustomerByID", [NoArg EXCEPT !.id = id, !.fault = f],
                            Called(s), <<>>)

CallGetCustomerByEmail ==
    \E e \in Emails, f \in Faults :
        LET s == GetCustomerByEmail(DB, e, f)
        IN  /\ Serving
            /\ Commit(s.db)
            /\ UNCHANGED live
            /\ last' = Last("GetCustomerByEmail", [NoArg EXCEPT !.email = e, !.fault = f],
                            Called(s), <<>>)

CallCreateCustomer ==
    \E i \in Inputs, f \in Faults :
        LET s == CreateCustomer(DB, clock, i.name, i.email, i.password, f)
        IN  /\ Serving
            /\ nextId <= MaxId
            /\ Commit(s.db)
            /\ live' = IF s.err = NoError THEN live \cup {s.out[1].id} ELSE live
            /\ last' = Last("CreateCustomer",
                            [NoArg EXCEPT !.name = i.name, !.email = i.email,
                                          !.password = i.password, !.fault = f],
                            Called(s), <<>>)

CallUpdateCustomer ==
    \E id \in Ids, i \in Inputs, f \in Faults :
        LET s == UpdateCustomer(DB, clock, id, i.name, i.email, i.password, f)
        IN  /\ Serving
            /\ Commit(s.db)
            /\ UNCHANGED live
            /\ last' = Last("UpdateCustomer",
                            [NoArg EXCEPT !.id = id, !.name = i.name, !.email = i.email,
                                          !.password = i.password, !.fault = f],
                            Called(s), <<>>)

CallDeleteCustomerByEmail ==
    \E e \in Emails, f \in Faults :
        LET s == SvcDeleteCustomerByEmail(DB, e, f)
        IN  /\ Serving
            /\ Commit(s.db)
            /\ live' = IF s.err = NoError
                       THEN live \ {c.id : c \in {d \in rows : d.email = e}}
                       ELSE live
            /\ last' = Last("DeleteCustomerByEmail", [NoArg EXCEPT !.email = e, !.fault = f],
                            Called(s), <<>>)

\* mux.HandleFunc("/customers", customerHandler.CreateCustomer)
HttpCreateCustomer ==
    \E m \in Methods, b \in Bodies, f \in Faults :
        LET h == HandlerCreateCustomer(DB, clock, m, b, f)
        IN  /\ Serving
            /\ nextId <= MaxId
            /\ Commit(h.db)
            /\ live' = IF h.status = 201 THEN live \cup {h.json[1].id} ELSE live
            /\ last' = Last("POST /customers",
                            [NoArg EXCEPT !.method = m, !.body = b, !.fault = f],
                            h.svc, Response(h))

\* mux.HandleFunc("/customer", customerHandler.GetCustomers); the handler
\* never reads the request body.
HttpGetCustomers ==
    \E m \in Methods, f \in Faults :
        LET b == NoArg.body
            h == HandlerGetCustomers(DB, m, b, f)
        IN  /\ Serving
            /\ Commit(h.db)
            /\ UNCHANGED live
            /\ last' = Last("GET /customer",
                            [NoArg EXCEPT !.method = m, !.body = b, !.fault = f],
                            h.svc, Response(h))

Next ==
    \/ StartLoadConfig
    \/ StartOpenPool
    \/ StartServe
    \/ ServeFails
    \/ Tick
    \/ CallGetCustomers
    \/ CallGetCustomerByID
    \/ CallGetCustomerByEmail
    \/ CallCreateCustomer
    \/ CallUpdateCustomer
    \/ CallDeleteCustomerByEmail
    \/ HttpCreateCustomer
    \/ HttpGetCustomers

Spec == Init /\ [][Next]_vars

\* ------------------------------------------------- concurrent requests
\* The server after a successful start, handling POST /customers requests
\* on several goroutines at once.  A handler touches shared state only
\* through its one statement, which storage executes atomically.  The
\* goroutines end with the process when ListenAndServe returns.
InitConc ==
    /\ rows = {}
    /\ nextId = 1
    /\ clock = 0
    /\ live = {}
    /\ last = [op |-> "init", arg |-> NoArg, pre |-> [rows |-> {}, nextId |-> 1],
               now |-> 0, svc |-> <<>>, http |-> <<>>]
    /\ boot = MainServe(MainOpenPool(MainLoadConfig(
                  BootState("server", TRUE, "postgres://db", "free"))))
    /\ reqs = [w \in Workers |-> NoRequest]

\* A request arrives and its goroutine enters Handler.CreateCustomer.
Receive(w) ==
    \E b \in Bodies, f \in Faults :
        /\ Serving
        /\ reqs[w].st = "idle"
        /\ reqs' = [reqs EXCEPT ![w] = Request("received", b, f, 0, FALSE)]
        /\ UNCHANGED <<rows, nextId, clock, live, last, boot>>

\* The handler of w runs up to and including its statement at storage.
Execute(w) ==
    LET q == reqs[w]
        h == HandlerCreateCustomer(DB, clock, "POST", q.body, q.fault)
        others == {v \in Workers \ {w} :
                     /\ InProgress(reqs[v])
                     /\ ~reqs[v].body.bad
                     /\ Field(reqs[v].body.email) = Field(q.body.email)}
    IN  /\ Serving
        /\ q.st = "received"
        /\ nextId <= MaxId
        /\ rows' = h.db.rows
        /\ nextId' = h.db.nextId
        /\ live' = IF h.status = 201 THEN live \cup {h.json[1].id} ELSE live
        /\ reqs' = [reqs EXCEPT ![w] =
                       Request("executed", q.body, q.fault, h.status, others # {})]
        /\ UNCHANGED <<clock, last, boot>>

\* The response of w is written and its goroutine ends.
Respond(w) ==
    /\ Serving
    /\ reqs[w].st = "executed"
    /\ reqs' = [reqs EXCEPT ![w].st = "done"]
    /\ UNCHANGED <<rows, nextId, clock, live, last, boot>>

NextConc ==
    \/ \E w \in Workers : Receive(w)
    \/ \E w \in Workers : Execute(w)
    \/ \E w \in Workers : Respond(w)
    \/ ServeFails

SpecConc == InitConc /\ [][NextConc]_vars

TypeOK ==
    /\ nextId \in 1..(MaxId + 1)
    /\ clock \in 0..MaxClock
    /\ IdsOf(rows) \subseteq 1..MaxId

\* ----------------------------------------------------------------- claims
\* The service call of the latest operation (defined when last.svc # <<>>).
S == last.svc[1]

Served(op) == last.op = op /\ last.svc # <<>>

\* C1: a create whose email no stored row holds, and whose statement reaches
\* storage, returns a nil error and a record with the given name and email
\* and an identifier no row had before; exactly that one row is added.
C1_CreateUniqueEmail ==
    (/\ Served("CreateCustomer")
     /\ last.arg.fault = "none"
     /\ last.arg.email \notin EmailsOf(last.pre.rows))
    => /\ S.repo.err = NoError
       /\ S.err = NoError
       /\ Len(S.repo.out) = 1
       /\ S.out = S.repo.out
       /\ S.out[1].name = last.arg.name
       /\ S.out[1].email = last.arg.email
       /\ S.out[1].id \notin IdsOf(last.pre.rows)
       /\ rows \ last.pre.rows = {S.out[1]}
       /\ last.pre.rows \subseteq rows
       /\ Cardinality(rows) = Cardinality(last.pre.rows) + 1

C1_Witness ==
    /\ Served("CreateCustomer")
    /\ last.arg.fault = "none"
    /\ last.pre.rows # {}
    /\ last.arg.email \notin EmailsOf(last.pre.rows)
    /\ S.err = NoError
    /\ S.out[1].name # S.out[1].email

\* C2: a create whose email a stored row already holds returns a nil record
\* and a non-nil error that is not ErrCustomerNotFound (the wrapped
\* uniqueness violation when the statement reaches storage), and the stored
\* rows are the same after the call as before.
C2_CreateDuplicateEmail ==
    (/\ Served("CreateCustomer")
     /\ last.arg.email \in EmailsOf(last.pre.rows))
    => /\ S.repo.out = <<>>
       /\ S.repo.err # NoError
       /\ ~Is(S.repo.err, ErrCustomerNotFound)
       /\ last.arg.fault = "none" => Is(S.repo.err, ErrUniqueViolation)
       /\ rows = last.pre.rows

C2_Witness ==
    /\ Served("CreateCustomer")
    /\ last.arg.fault = "none"
    /\ last.arg.email \in EmailsOf(last.pre.rows)
    /\ Is(S.repo.err, ErrUniqueViolation)
    /\ rows = last.pre.rows

\* C3: FindCustomerByID with an id no row has and FindCustomerByEmail with
\* an email no row has return nil and exactly ErrCustomerNotFound; any other
\* failure of these reads returns the underlying error wrapped under the
\* operation's prefix, which errors.Is does not identify as the sentinel.
C3_ReadNotFound ==
    /\ (Served("GetCustomerByID") /\ last.arg.fault = "none"
            /\ last.arg.id \notin IdsOf(last.pre.rows))
        => (S.repo.out = <<>> /\ S.repo.err = ErrCustomerNotFound)
    /\ (Served("GetCustomerByEmail") /\ last.arg.fault = "none"
            /\ last.arg.email \notin EmailsOf(last.pre.rows))
        => (S.repo.out = <<>> /\ S.repo.err = ErrCustomerNotFound)
    /\ (Served("GetCustomerByID") /\ last.arg.fault # "none")
        => (/\ S.repo.out = <<>>
            /\ S.repo.err = Errorf("get customer by id: ", DriverError(last.arg.fault))
            /\ ~Is(S.repo.err, ErrCustomerNotFound))
    /\ (Served("GetCustomerByEmail") /\ last.arg.fault # "none")
        => (/\ S.repo.out = <<>>
            /\ S.repo.err = Errorf("get customer by email: ", DriverError(last.arg.fault))
            /\ ~Is(S.repo.err, ErrCustomerNotFound))

C3_Witness ==
    /\ Served("GetCustomerByEmail")
    /\ last.arg.fault = "none"
    /\ last.pre.rows # {}
    /\ last.arg.email \notin EmailsOf(last.pre.rows)
    /\ S.repo.err = ErrCustomerNotFound

\* C4: a list that reaches storage returns exactly the rows created and not
\* since deleted, each once, in strictly ascending id order, untruncated.
C4_ListAll ==
    (/\ last.op \in {"GetCustomers", "GET /customer"}
     /\ last.svc # <<>>
     /\ last.arg.fault = "none")
    => /\ S.err = NoError
       /\ S.out = S.repo.out
       /\ {S.out[i] : i \in 1..Len(S.out)} = rows
       /\ {S.out[i].id : i \in 1..Len(S.out)} = live
       /\ Len(S.out) = Cardinality(live)
       /\ \A i, j \in 1..Len(S.out) : i < j => S.out[i].id < S.out[j].id

C4_Witness ==
    /\ Served("GetCustomers")
    /\ last.arg.fault = "none"
    /\ Len(S.out) = 2
    /\ S.out[1].id < S.out[2].id

\* C5: UpdateExistingCustomer with an id no row has returns a nil record and
\* ErrCustomerNotFound, and every stored row is as it was before the call.
C5_UpdateNotFound ==
    (/\ Served("UpdateCustomer")
     /\ last.arg.fault = "none"
     /\ last.arg.id \notin IdsOf(last.pre.rows))
    => /\ S.repo.out = <<>>
       /\ S.repo.err = ErrCustomerNotFound
       /\ rows = last.pre.rows

C5_Witness ==
    /\ Served("UpdateCustomer")
    /\ last.arg.fault = "none"
    /\ last.pre.rows # {}
    /\ last.arg.id \notin IdsOf(last.pre.rows)
    /\ clock > 0
    /\ S.repo.err = ErrCustomerNotFound

\* C6: DeleteCustomerByEmail with an email no row has returns
\* ErrCustomerNotFound and changes no row; with an email a row has it
\* returns nil, removes exactly that row and leaves the others as they were.
C6_DeleteByEmail ==
    (/\ Served("DeleteCustomerByEmail")
     /\ last.arg.fault = "none")
    => IF last.arg.email \notin EmailsOf(last.pre.rows)
       THEN /\ S.repo.err = ErrCustomerNotFound
            /\ rows = last.pre.rows
       ELSE /\ S.repo.err = NoError
            /\ rows = {c \in last.pre.rows : c.email # last.arg.email}
            /\ Cardinality(last.pre.rows \ rows) = 1

C6_Witness ==
    /\ Served("DeleteCustomerByEmail")
    /\ last.arg.fault = "none"
    /\ Cardinality(last.pre.rows) = 2
    /\ Cardinality(rows) = 1
    /\ S.repo.err = NoError

\* C7: a POST to the create handler whose body fails JSON decoding is
\* answered 400, the service is not invoked and no row is created.
C7_MalformedBody ==
    (/\ last.op = "POST /customers"
     /\ last.arg.method = "POST"
     /\ last.arg.body.bad)
    => /\ last.http[1].status = 400
       /\ last.svc = <<>>
       /\ DB = last.pre

C7_Witness ==
    /\ last.op = "POST /customers"
    /\ last.arg.method = "POST"
    /\ last.arg.body.bad
    /\ last.http[1].status = 400

\* C8: the list handler with a method other than GET and the create handler
\* with a method other than POST answer 405 without decoding the body and
\* without calling the service: storage is untouched and the answer is
\* never 400, whatever the body.
C8_MethodNotAllowed ==
    (\/ last.op = "POST /customers" /\ last.arg.method # "POST"
     \/ last.op = "GET /customer" /\ last.arg.method # "GET")
    => /\ last.http[1].status = 405
       /\ last.svc = <<>>
       /\ DB = last.pre

C8_Witness ==
    /\ last.op = "POST /customers"
    /\ last.arg.method = "GET"
    /\ last.arg.body.bad
    /\ last.http[1].status = 405

\* C9: for every service method, the error it returns is identified as
\* ErrCustomerNotFound by errors.Is exactly when the error its repository
\* call returned is.
C9_SentinelIdentityKept ==
    last.svc # <<>>
    => (Is(S.repo.err, ErrCustomerNotFound) <=> Is(S.err, ErrCustomerNotFound))

C9_Witness ==
    /\ Served("UpdateCustomer")
    /\ S.repo.err = ErrCustomerNotFound
    /\ S.err # S.repo.err
    /\ Is(S.err, ErrCustomerNotFound)

\* C10: every service method, when its repository call returns a non-nil
\* error, returns a different error that wraps the repository error under
\* an added prefix.
C10_EveryServiceErrorPrefixed ==
    (last.svc # <<>> /\ S.repo.err # NoError)
    => /\ S.err # S.repo.err
       /\ Len(S.err) = Len(S.repo.err) + 1
       /\ Head(S.err).tag = "fmt.wrapError"
       /\ Head(S.err).msg # ""
       /\ Tail(S.err) = S.repo.err


\* The response of the latest HTTP request (defined when last.http # <<>>).
R == last.http[1]

\* C11: a POST to /customers with a decodable body is answered 201 with
\* exactly the id, name and email of the created record (no password) when
\* the service create succeeds and 500 whenever it fails, whatever the
\* failure; the endpoint answers nothing but 201, 400, 405 and 500.
C11_CreateResponses ==
    last.op = "POST /customers"
    => /\ R.status \in {201, 400, 405, 500}
       /\ (last.arg.method = "POST" /\ ~last.arg.body.bad)
          => /\ last.svc # <<>>
             /\ IF S.err = NoError
                THEN /\ R.status = 201
                     /\ Len(R.json) = 1
                     /\ DOMAIN R.json[1] = {"id", "name", "email"}
                     /\ R.json[1].id = S.out[1].id
                     /\ R.json[1].name = S.out[1].name
                     /\ R.json[1].email = S.out[1].email
                     /\ S.out[1] \in rows
                ELSE /\ R.status = 500
                     /\ R.json = <<>>

C11_Witness ==
    /\ last.op = "POST /customers"
    /\ last.arg.method = "POST"
    /\ last.svc # <<>>
    /\ Is(S.err, ErrUniqueViolation)
    /\ R.status = 500

\* C12: a GET to /customer is answered 200 with all stored customer records,
\* each with its password, when the service list succeeds, and 500 with the
\* text of the service error in the body when it fails; storage is never
\* changed.
C12_ListResponses ==
    (last.op = "GET /customer" /\ last.arg.method = "GET")
    => /\ last.svc # <<>>
       /\ DB = last.pre
       /\ IF S.err = NoError
          THEN /\ R.status = 200
               /\ {R.json[i] : i \in 1..Len(R.json)} = rows
               /\ Len(R.json) = Cardinality(rows)
               /\ \A i \in 1..Len(R.json) :
                     \E c \in rows : c.id = R.json[i].id /\ c.password = R.json[i].password
          ELSE /\ R.status = 500
               /\ R.json = <<>>
               /\ ErrorText(S.err) # ""
               /\ R.text = "failed to fetch customers: " \o ErrorText(S.err)

C12_Witness ==
    /\ last.op = "GET /customer"
    /\ last.arg.method = "GET"
    /\ rows # {}
    /\ R.status = 500
    /\ R.text = "failed to fetch customers: customer not found failed to connect"

\* C20: the create handler validates nothing: a POST with a decodable JSON
\* object is never answered 400, absent keys reach the service as empty
\* strings, and the insert is answered 201 when storage accepts it and 500
\* when a row with that (possibly empty) email already exists.
C20_NoValidation ==
    (/\ last.op = "POST /customers"
     /\ last.arg.method = "POST"
     /\ ~last.arg.body.bad)
    => /\ R.status # 400
       /\ last.svc # <<>>
       /\ last.arg.fault = "none"
          => IF Field(last.arg.body.email) \in EmailsOf(last.pre.rows)
             THEN R.status = 500 /\ rows = last.pre.rows
             ELSE /\ R.status = 201
                  /\ S.out[1].name = Field(last.arg.body.name)
                  /\ S.out[1].email = Field(last.arg.body.email)
                  /\ S.out[1].password = Field(last.arg.body.password)
                  /\ rows = last.pre.rows \cup {S.out[1]}

C20_Witness ==
    /\ last.op = "POST /customers"
    /\ last.arg.method = "POST"
    /\ last.arg.body = Body(FALSE, <<>>, <<>>, <<>>)
    /\ last.arg.fault = "none"
    /\ R.status = 201
    /\ \E c \in rows : c.name = "" /\ c.email = "" /\ c.password = ""


\* C15: every repository method that returns a record returns either a
\* non-nil record with a nil error or a nil record with a non-nil error; the
\* list returns the collection with a nil error or nothing with an error.
C15_ResultXorError ==
    last.svc # <<>>
    => CASE last.op \in {"GetCustomerByID", "GetCustomerByEmail", "CreateCustomer",
                         "UpdateCustomer", "POST /customers"}
              -> \/ Len(S.repo.out) = 1 /\ S.repo.err = NoError
                 \/ S.repo.out = <<>> /\ S.repo.err # NoError
         [] last.op \in {"GetCustomers", "GET /customer"}
              -> \/ S.repo.err = NoError
                      /\ {S.repo.out[i] : i \in 1..Len(S.repo.out)} = last.pre.rows
                 \/ S.repo.out = <<>> /\ S.repo.err # NoError
         [] OTHER -> TRUE

C15_Witness ==
    /\ Served("GetCustomerByID")
    /\ last.pre.rows # {}
    /\ S.repo.out = <<>>
    /\ S.repo.err = ErrCustomerNotFound

\* C16: every repository call, hence every service call and every request
\* that reaches the service, sends exactly one statement to storage, also
\* when the statement fails; the failure is returned, not retried.
C16_OneStatementPerCall ==
    /\ last.svc # <<>>
       => /\ S.stmts = 1
          /\ last.arg.fault # "none"
             => /\ S.repo.err # NoError
                /\ S.err # NoError
                /\ DB = last.pre
                /\ last.http # <<>> => R.status = 500
    /\ (last.http # <<>> /\ last.svc = <<>>) => DB = last.pre

C16_Witness ==
    /\ Served("CreateCustomer")
    /\ Is(S.err, ErrUniqueViolation)
    /\ S.stmts = 1
    /\ nextId = last.pre.nextId + 1


\* C17: a successful UpdateExistingCustomer sets the row's name, email and
\* password to the given values and its updated timestamp to NOW(), keeps
\* its identifier and created timestamp, leaves every other row as it was
\* and returns the row as stored; the identifiers of the stored rows are
\* always exactly those handed out by creates and not deleted since.
C17_UpdateInPlace ==
    /\ IdsOf(rows) = live
    /\ Cardinality(rows) = Cardinality(live)
    /\ (Served("UpdateCustomer") /\ S.repo.err = NoError)
       => /\ Len(S.repo.out) = 1
          /\ S.repo.out[1] \in rows
          /\ S.repo.out[1].id = last.arg.id
          /\ S.repo.out[1].name = last.arg.name
          /\ S.repo.out[1].email = last.arg.email
          /\ S.repo.out[1].password = last.arg.password
          /\ S.repo.out[1].updated_at = last.now
          /\ \E old \in last.pre.rows :
                /\ old.id = last.arg.id
                /\ old.created_at = S.repo.out[1].created_at
                /\ old.updated_at <= S.repo.out[1].updated_at
                /\ rows \ {S.repo.out[1]} = last.pre.rows \ {old}

C17_Witness ==
    /\ Served("UpdateCustomer")
    /\ S.repo.err = NoError
    /\ Cardinality(rows) = 2
    /\ S.repo.out[1].created_at < S.repo.out[1].updated_at
    /\ \E old \in last.pre.rows :
          /\ old.id = last.arg.id
          /\ old.email # last.arg.email
          /\ old.updated_at < last.now

\* C19: the context of a request is the one its statement is sent with, so
\* when it is cancelled while the statement is in flight the statement has
\* no effect, the service returns an error that wraps context.Canceled and
\* is not ErrCustomerNotFound, one statement was sent, and an HTTP request
\* ends with 500.
C19_CancellationPropagates ==
    (last.svc # <<>> /\ last.arg.fault = "canceled")
    => /\ DB = last.pre
       /\ Is(S.repo.err, ErrCanceled)
       /\ Is(S.err, ErrCanceled)
       /\ ~Is(S.err, ErrCustomerNotFound)
       /\ S.out = <<>>
       /\ S.stmts = 1
       /\ last.http # <<>> => R.status = 500

C19_Witness ==
    /\ last.op = "GET /customer"
    /\ last.arg.fault = "canceled"
    /\ rows # {}
    /\ Is(S.err, ErrCanceled)
    /\ R.status = 500


\* C13: when config.Load or the creation of the pool fails, the process is
\* over with a nonzero exit status: after a failed load no pool was ever
\* asked for, and after either failure main never listens (ListenAndServe
\* is never called) and no request is served.
C13_FatalOnStartupFailure ==
    /\ boot.cfgErr # NoError
       => /\ boot.pc = "exited"
          /\ boot.exit \in {<<ExitFatal>>, <<ExitPanic>>}
          /\ boot.poolCalls = <<>>
          /\ boot.pool = <<>>
          /\ boot.listenErr = NoError
    /\ boot.poolErr # NoError
       => /\ boot.pc = "exited"
          /\ boot.exit = <<ExitFatal>>
          /\ boot.listenErr = NoError
    /\ (boot.cfgErr # NoError \/ boot.poolErr # NoError) => last.op \in {"init", "Tick"}

C13_Witness ==
    /\ boot.main = "server"
    /\ boot.cfgErr = NoError
    /\ boot.poolCalls = << "::bad::" >>
    /\ boot.poolErr = ErrParseUrl
    /\ boot.pc = "exited"

\* C14: config.Load returns a non-nil Config filled from the environment and
\* a nil error whether or not there is a .env file.
C14_EnvFileOptional ==
    boot.loaded
    => /\ boot.cfgErr = NoError
       /\ Len(boot.cfg) = 1
       /\ boot.cfg[1].DatabaseURL = boot.url


\* The requests for email e whose statement has run.
Ran(e) ==
    {w \in Workers : /\ reqs[w].st \in {"executed", "done"}
                     /\ ~reqs[w].body.bad
                     /\ Field(reqs[w].body.email) = e}

\* C18: under every interleaving of the handlers no two stored rows share an
\* email or an identifier; of the create requests for one unused email whose
\* statements have run, at most one is answered 201, every other one is
\* answered 500, and when one of them reached storage exactly one is
\* answered 201 and exactly one row holds the email.
C18_UniqueUnderConcurrency ==
    /\ \A c, d \in rows : (c.email = d.email \/ c.id = d.id) => c = d
    /\ \A e \in {Field(b.email) : b \in Bodies} :
          LET won == {w \in Ran(e) : reqs[w].status = 201}
          IN  /\ Cardinality(won) <= 1
              /\ \A w \in Ran(e) \ won : reqs[w].status = 500
              /\ Cardinality({c \in rows : c.email = e}) = Cardinality(won)
              /\ (\E w \in Ran(e) : reqs[w].fault = "none") => Cardinality(won) = 1

C18_Witness ==
    \E v, w \in Workers :
        /\ v # w
        /\ reqs[v].st = "done" /\ reqs[w].st = "done"
        /\ reqs[v].overlap /\ reqs[w].overlap
        /\ reqs[v].fault = "none" /\ reqs[w].fault = "none"
        /\ reqs[v].body.name # reqs[w].body.name
        /\ Field(reqs[v].body.email) = Field(reqs[w].body.email)
        /\ reqs[v].status = 201
        /\ reqs[w].status = 500
        /\ Cardinality(rows) = 1


\* C21: UpdateExistingCustomer on the id of a stored row with an email that
\* another stored row holds returns a nil record and the storage's
\* unique-violation error wrapped with "update customer: ", which is not
\* ErrCustomerNotFound, and every stored row (the targeted one and its
\* updated timestamp included) is as it was before the call; with an email
\* no other row holds, the row's own current email included, it succeeds.
C21_UpdateEmailConflict ==
    (/\ Served("UpdateCustomer")
     /\ last.arg.fault = "none"
     /\ last.arg.id \in IdsOf(last.pre.rows))
    => LET others == {c \in last.pre.rows : c.id # last.arg.id}
       IN  IF last.arg.email \in EmailsOf(others)
           THEN /\ S.repo.out = <<>>
                /\ S.repo.err = Errorf("update customer: ", ErrUniqueViolation)
                /\ Is(S.repo.err, ErrUniqueViolation)
                /\ ~Is(S.repo.err, ErrCustomerNotFound)
                /\ S.out = <<>>
                /\ ~Is(S.err, ErrCustomerNotFound)
                /\ rows = last.pre.rows
           ELSE /\ S.repo.err = NoError
                /\ Len(S.repo.out) = 1
                /\ S.repo.out[1].email = last.arg.email

C21_Witness ==
    /\ Served("UpdateCustomer")
    /\ last.arg.fault = "none"
    /\ S.repo.err = Errorf("update customer: ", ErrUniqueViolation)
    /\ rows = last.pre.rows
    /\ \E old \in rows, other \in rows :
          /\ old.id = last.arg.id
          /\ other.id # old.id
          /\ other.email = last.arg.email
          /\ old.email # last.arg.email
          /\ old.updated_at < last.now

====
